---- MODULE Spec2Model ----
(***************************************************************************)
(* createVariants (packages/style/createVariants.ts): the variant          *)
(* resolver.  One call is modelled statement by statement: the result      *)
(* shape, the reset short-circuit, the loop over Object.entries(options),  *)
(* the loop over options.compound and the final trim.                      *)
(*                                                                         *)
(* A JavaScript value is a record [type, val]; a JavaScript string is the  *)
(* sequence of its pieces, where each class name is one piece and the      *)
(* separator " " is a piece of its own, so that concatenation is \o and    *)
(* trim() has something to remove.                                         *)
(***************************************************************************)
EXTENDS Integers, Sequences, FiniteSets, TLC

VARIABLES options, props, pc, result, classList, i, j, calls, first

vars == <<options, props, pc, result, classList, i, j, calls, first>>

(***************************************************************************)
(* Bounds of the model.                                                    *)
(***************************************************************************)
MaxRules == 2
MaxCalls == 2

(***************************************************************************)
(* JavaScript values.                                                      *)
(***************************************************************************)
Undefined == [type |-> "undefined", val |-> <<>>]
Null == [type |-> "null", val |-> <<>>]
JsTrue == [type |-> "boolean", val |-> <<"true">>]
JsFalse == [type |-> "boolean", val |-> <<"false">>]
Str(s) == [type |-> "string", val |-> s]

Space == <<" ">>

\* ToBoolean, as used by `||`, `&&` and `if (...)`.
Truthy(v) ==
    CASE v.type = "string" -> v.val # <<>>
      [] v.type = "boolean" -> v = JsTrue
      [] v.type \in {"undefined", "null"} -> FALSE
      [] OTHER -> TRUE

\* classList += ' ' + fragment
PrependClasses(list, fragment) == fragment \o Space \o list
AppendClasses(list, fragment) == list \o Space \o fragment

\* x || ''
OrEmpty(v) == IF Truthy(v) THEN v.val ELSE <<>>

\* String.prototype.trim: leading and trailing separators are removed.
RECURSIVE TrimStart(_)
TrimStart(s) == IF s # <<>> /\ Head(s) = " " THEN TrimStart(Tail(s)) ELSE s

RECURSIVE TrimEnd(_)
TrimEnd(s) ==
    IF s # <<>> /\ s[Len(s)] = " " THEN TrimEnd(SubSeq(s, 1, Len(s) - 1)) ELSE s

Trim(s) == TrimEnd(TrimStart(s))

(***************************************************************************)
(* The types of ./types: axis definitions, compound rules, options.        *)
(***************************************************************************)
NoMap == [k \in {} |-> Undefined]

\* A variant group given as a plain string: a boolean toggle.
StringDef(s) == [type |-> "string", val |-> s, map |-> NoMap]
\* A variant group given as VariantGroupOptions.
ObjectDef(m) == [type |-> "object", val |-> <<>>, map |-> m]
\* A variant group given as something else (an array here).
ArrayDef == [type |-> "array", val |-> <<>>, map |-> NoMap]

\* groupOptions[key]: a missing key reads as undefined.
Get(m, key) == IF key \in DOMAIN m THEN m[key] ELSE Undefined

DefaultKey == <<"_default">>

Sized ==
    ObjectDef((<<"sm">> :> Str(<<"text-sm">>)) @@ (<<"ghost">> :> Str(<<>>))
              @@ (DefaultKey :> Str(<<"sm">>)))
Plain == ObjectDef(<<"sm">> :> Str(<<"text-sm">>))
RawDefault == ObjectDef((<<"sm">> :> Null) @@ (DefaultKey :> Str(<<"raw">>)))
Toggle == StringDef(<<"shadow-lg">>)

AxisDefs == {Toggle, Sized, Plain, RawDefault, ArrayDef}

\* The names of the variant groups, in the order the options object lists them.
AxisNameOrder == <<"size", "variant">>
MaxAxes == Len(AxisNameOrder)

AxisLists ==
    UNION {{[k \in 1..n |-> [name |-> AxisNameOrder[k], def |-> d[k]]] :
               d \in [1..n -> AxisDefs]} : n \in 0..MaxAxes}

Cond(k, v) == [key |-> k, value |-> v]
Rule(es) == [type |-> "object", entries |-> es]
NullRule == [type |-> "null", entries |-> <<>>]

SmallRule == Rule(<<Cond("size", Str(<<"sm">>)), Cond("classes", Str(<<"c1">>))>>)
PairRule ==
    Rule(<<Cond("classes", Str(<<"c2">>)), Cond("variant", JsTrue),
           Cond("size", Str(<<"sm">>))>>)

Rules == {SmallRule, PairRule}

NoCompound == [type |-> "undefined", rules |-> <<>>]
ArrayCompound(rs) == [type |-> "array", rules |-> rs]
ObjectCompound == [type |-> "object", rules |-> <<>>]

Compounds ==
    {NoCompound, ObjectCompound, ArrayCompound(<<NullRule>>)}
    \cup {ArrayCompound(rs) : rs \in UNION {[1..n -> Rules] : n \in 0..MaxRules}}

OptionsSet ==
    [base : {Undefined, Str(<<"btn">>)},
     reset : {Undefined, Str(<<"p-0">>)},
     axes : AxisLists,
     compound : Compounds]

SelectionValues == {Undefined, JsTrue, JsFalse, Str(<<"sm">>), Str(<<"ghost">>)}
ResetValues == {Undefined, JsTrue, JsFalse}

SelectionKeys == {AxisNameOrder[k] : k \in 1..MaxAxes}

PropsSet ==
    {[k \in SelectionKeys \cup {"resetStyles"} |->
         IF k = "resetStyles" THEN r ELSE s[k]] :
       r \in ResetValues, s \in [SelectionKeys -> SelectionValues]}

\* props[key]: a missing key reads as undefined.
Prop(key) == IF key \in DOMAIN props THEN props[key] ELSE Undefined

(***************************************************************************)
(* Object.entries(options): the own keys in insertion order.               *)
(***************************************************************************)
Own(name, v) ==
    IF v = Undefined THEN <<>> ELSE <<[name |-> name, def |-> StringDef(v.val)]>>

Entries(o) ==
    Own("base", o.base) \o Own("reset", o.reset) \o o.axes
    \o (IF o.compound.type = "undefined" THEN <<>>
        ELSE <<[name |-> "compound",
                def |-> [type |-> o.compound.type, val |-> <<>>, map |-> NoMap]]>>)

IsReservedNoReset(key) == key = "base" \/ key = "compound"
IsReserved(key) == key = "base" \/ key = "reset" \/ key = "compound"

\* Object.keys(options).filter(...)
VariantKeys(o) ==
    {Entries(o)[k].name : k \in {n \in 1..Len(Entries(o)) : ~IsReserved(Entries(o)[n].name)}}

NoResult == [k \in {} |-> Undefined]

Lookup(res, key) == IF key \in DOMAIN res THEN res[key] ELSE Undefined

Init ==
    /\ options \in OptionsSet
    /\ props \in PropsSet
    /\ pc = "idle"
    /\ result = NoResult
    /\ classList = <<>>
    /\ i = 0
    /\ j = 0
    /\ calls = 0
    /\ first = NoResult

(***************************************************************************)
(* Phase 1: the result object with one property per variant group.         *)
(***************************************************************************)
Enter ==
    /\ pc = "idle"
    /\ result' = [k \in {"classes"} \cup VariantKeys(options) |->
                     IF k = "classes" THEN Str(<<>>) ELSE Undefined]
    /\ pc' = "entered"
    /\ UNCHANGED <<options, props, classList, i, j, calls, first>>

(***************************************************************************)
(* Phase 2: the reset short-circuit.                                       *)
(***************************************************************************)
ResetRequestedTruthy == Truthy(Prop("resetStyles"))
ResetRequested == Prop("resetStyles") # Undefined

ResetBranchConsuming ==
    /\ pc = "entered"
    /\ ResetRequested
    /\ result' = [k \in DOMAIN result |->
                     IF k # "classes" THEN Str(<<"_reset">>)
                     ELSE Str(OrEmpty(options.reset))]
    /\ props' = [props EXCEPT !["resetStyles"] = Undefined]
    /\ pc' = "done"
    /\ UNCHANGED <<options, classList, i, j, calls, first>>

ResetBranch ==
    /\ pc = "entered"
    /\ ResetRequested
    /\ result' = [k \in DOMAIN result |->
                     IF k # "classes" THEN Str(<<"_reset">>)
                     ELSE Str(OrEmpty(options.reset))]
    /\ pc' = "done"
    /\ UNCHANGED <<options, props, classList, i, j, calls, first>>

(***************************************************************************)
(* Phase 3: base classes, then one step per entry of the options.          *)
(***************************************************************************)
StartBase ==
    /\ pc = "entered"
    /\ ~ResetRequested
    /\ classList' = OrEmpty(options.base)
    /\ i' = 1
    /\ pc' = "axes"
    /\ UNCHANGED <<options, props, result, j, calls, first>>

InAxes == pc = "axes" /\ i <= Len(Entries(options))

\* propValue !== undefined
PassedTruthy(propValue) == Truthy(propValue)
Passed(propValue) == propValue # Undefined
Cur == Entries(options)[i]

SkipReserved ==
    /\ InAxes
    /\ IsReserved(Cur.name)
    /\ i' = i + 1
    /\ UNCHANGED <<options, props, pc, result, classList, j, calls, first>>

BooleanAxisUnset ==
    /\ InAxes
    /\ ~IsReserved(Cur.name)
    /\ Cur.def.type = "string"
    /\ IF Prop(Cur.name) = JsTrue
       THEN /\ result' = [result EXCEPT ![Cur.name] = JsTrue]
            /\ classList' = AppendClasses(classList, Cur.def.val)
       ELSE UNCHANGED <<result, classList>>
    /\ i' = i + 1
    /\ UNCHANGED <<options, props, pc, j, calls, first>>

BooleanAxis ==
    /\ InAxes
    /\ ~IsReserved(Cur.name)
    /\ Cur.def.type = "string"
    /\ IF Prop(Cur.name) = JsTrue
       THEN /\ result' = [result EXCEPT ![Cur.name] = JsTrue]
            /\ classList' = AppendClasses(classList, Cur.def.val)
       ELSE /\ result' = [result EXCEPT ![Cur.name] = JsFalse]
            /\ UNCHANGED classList
    /\ i' = i + 1
    /\ UNCHANGED <<options, props, pc, j, calls, first>>

SkipMalformed ==
    /\ InAxes
    /\ ~IsReserved(Cur.name)
    /\ Cur.def.type # "string"
    /\ Cur.def.type # "object"
    /\ i' = i + 1
    /\ UNCHANGED <<options, props, pc, result, classList, j, calls, first>>

SelectedAxisCustom ==
    /\ InAxes
    /\ ~IsReserved(Cur.name)
    /\ Cur.def.type = "object"
    /\ Passed(Prop(Cur.name))
    /\ IF Prop(Cur.name).type = "string"
       THEN /\ result' = [result EXCEPT ![Cur.name] =
                            IF Truthy(Get(Cur.def.map, Prop(Cur.name).val))
                            THEN Prop(Cur.name) ELSE Str(<<"_custom">>)]
            /\ classList' =
                 IF Truthy(Get(Cur.def.map, Prop(Cur.name).val))
                 THEN AppendClasses(classList, Get(Cur.def.map, Prop(Cur.name).val).val)
                 ELSE AppendClasses(classList, Prop(Cur.name).val)
       ELSE UNCHANGED <<result, classList>>
    /\ i' = i + 1
    /\ UNCHANGED <<options, props, pc, j, calls, first>>

SelectedAxis ==
    /\ InAxes
    /\ ~IsReserved(Cur.name)
    /\ Cur.def.type = "object"
    /\ Passed(Prop(Cur.name))
    /\ IF Prop(Cur.name).type = "string"
       THEN /\ result' = [result EXCEPT ![Cur.name] = Prop(Cur.name)]
            /\ classList' =
                 IF Truthy(Get(Cur.def.map, Prop(Cur.name).val))
                 THEN AppendClasses(classList, Get(Cur.def.map, Prop(Cur.name).val).val)
                 ELSE AppendClasses(classList, Prop(Cur.name).val)
       ELSE UNCHANGED <<result, classList>>
    /\ i' = i + 1
    /\ UNCHANGED <<options, props, pc, j, calls, first>>

UnselectedAxisNamed ==
    /\ InAxes
    /\ ~IsReserved(Cur.name)
    /\ Cur.def.type = "object"
    /\ ~Passed(Prop(Cur.name))
    /\ IF Truthy(Get(Cur.def.map, DefaultKey))
       THEN LET defaultValue == Get(Cur.def.map, DefaultKey) IN
            IF Truthy(Get(Cur.def.map, defaultValue.val))
            THEN /\ result' = [result EXCEPT ![Cur.name] = defaultValue]
                 /\ classList' =
                      AppendClasses(classList, Get(Cur.def.map, defaultValue.val).val)
            ELSE /\ result' = [result EXCEPT ![Cur.name] = defaultValue]
                 /\ classList' = AppendClasses(classList, defaultValue.val)
       ELSE UNCHANGED <<result, classList>>
    /\ i' = i + 1
    /\ UNCHANGED <<options, props, pc, j, calls, first>>

UnselectedAxis ==
    /\ InAxes
    /\ ~IsReserved(Cur.name)
    /\ Cur.def.type = "object"
    /\ ~Passed(Prop(Cur.name))
    /\ IF Truthy(Get(Cur.def.map, DefaultKey))
       THEN LET defaultValue == Get(Cur.def.map, DefaultKey) IN
            IF Truthy(Get(Cur.def.map, defaultValue.val))
            THEN /\ result' = [result EXCEPT ![Cur.name] = defaultValue]
                 /\ classList' =
                      AppendClasses(classList, Get(Cur.def.map, defaultValue.val).val)
            ELSE /\ result' = [result EXCEPT ![Cur.name] = Str(<<"_custom">>)]
                 /\ classList' = AppendClasses(classList, defaultValue.val)
       ELSE UNCHANGED <<result, classList>>
    /\ i' = i + 1
    /\ UNCHANGED <<options, props, pc, j, calls, first>>

(***************************************************************************)
(* Phase 4: the compound rules.                                            *)
(***************************************************************************)
AxesDone == pc = "axes" /\ i > Len(Entries(options))

\* for (const compound of options.compound) on an array.
EnterCompound ==
    /\ AxesDone
    /\ options.compound.type = "array"
    /\ j' = 1
    /\ pc' = "compound"
    /\ UNCHANGED <<options, props, result, classList, i, calls, first>>

\* for (... of ...) on a value that is truthy and not iterable: TypeError.
CompoundNotIterable ==
    /\ AxesDone
    /\ options.compound.type = "object"
    /\ pc' = "threw"
    /\ UNCHANGED <<options, props, result, classList, i, j, calls, first>>

InCompound == pc = "compound" /\ j <= Len(options.compound.rules)
CurRule == options.compound.rules[j]

ConditionHolds(e, res) ==
    IF e.key = "classes" THEN TRUE ELSE Lookup(res, e.key) = e.value

Some(es, res) ==
    \E k \in 1..Len(es) : es[k].key # "classes" /\ ConditionHolds(es[k], res)

\* Array.prototype.every over Object.entries(compound), in entry order.
RECURSIVE Every(_, _)
Every(es, res) ==
    IF es = <<>> THEN TRUE
    ELSE IF ConditionHolds(Head(es), res) THEN Every(Tail(es), res) ELSE FALSE

\* compound.classes
RECURSIVE RuleGet(_, _)
RuleGet(es, key) ==
    IF es = <<>> THEN Undefined
    ELSE IF es[Len(es)].key = key THEN es[Len(es)].value
    ELSE RuleGet(SubSeq(es, 1, Len(es) - 1), key)

CompoundStep ==
    /\ InCompound
    /\ CurRule.type = "object"
    /\ LET isMatch == Every(CurRule.entries, result)
           classes == RuleGet(CurRule.entries, "classes")
       IN  classList' = IF isMatch /\ Truthy(classes)
                        THEN AppendClasses(classList, classes.val)
                        ELSE classList
    /\ j' = j + 1
    /\ UNCHANGED <<options, props, pc, result, i, calls, first>>

\* Object.entries(null): TypeError.
CompoundRuleNull ==
    /\ InCompound
    /\ CurRule.type = "null"
    /\ pc' = "threw"
    /\ UNCHANGED <<options, props, result, classList, i, j, calls, first>>

(***************************************************************************)
(* The final class string.                                                 *)
(***************************************************************************)
LoopsDone ==
    \/ AxesDone /\ ~(options.compound.type \in {"array", "object"})
    \/ pc = "compound" /\ j > Len(options.compound.rules)

Finish ==
    /\ LoopsDone
    /\ result' = [result EXCEPT !["classes"] = Str(Trim(classList))]
    /\ pc' = "done"
    /\ UNCHANGED <<options, props, classList, i, j, calls, first>>

(***************************************************************************)
(* The caller keeps the returned object and calls again with the same      *)
(* options and props; the locals of the finished call are gone.            *)
(***************************************************************************)
Again ==
    /\ pc \in {"done", "threw"}
    /\ calls + 1 < MaxCalls
    /\ calls' = calls + 1
    /\ first' = IF pc = "done" THEN result ELSE NoResult
    /\ pc' = "idle"
    /\ result' = NoResult
    /\ classList' = <<>>
    /\ i' = 0
    /\ j' = 0
    /\ UNCHANGED <<options, props>>

Next ==
    \/ Enter
    \/ ResetBranch
    \/ StartBase
    \/ SkipReserved
    \/ BooleanAxis
    \/ SkipMalformed
    \/ SelectedAxis
    \/ UnselectedAxis
    \/ EnterCompound
    \/ CompoundNotIterable
    \/ CompoundStep
    \/ CompoundRuleNull
    \/ Finish
    \/ Again

Spec == Init /\ [][Next]_vars

(***************************************************************************)
(* Vocabulary of the properties.                                           *)
(***************************************************************************)
Returned == pc = "done"
Declared == {options.axes[k].name : k \in 1..Len(options.axes)}
ResetActive == props["resetStyles"] # Undefined
Reset == Str(<<"_reset">>)
Custom == Str(<<"_custom">>)
NonEmpty(v) == v.type = "string" /\ v.val # <<>>
IsPrefix(s, t) == Len(s) <= Len(t) /\ SubSeq(t, 1, Len(s)) = s
Reverse(s) == [k \in 1..Len(s) |-> s[Len(s) + 1 - k]]
AtAxis == pc = "axes" /\ i <= Len(Entries(options)) /\ Cur.name \in Declared
AtRule ==
    pc = "compound" /\ j <= Len(options.compound.rules) /\ CurRule.type = "object"

\* C1: the returned object has the key classes and one key per key of the
\* options other than base, reset and compound, and no other key.
C1_ResultKeys == Returned => DOMAIN result = {"classes"} \cup Declared

C1_Witness ==
    /\ Returned
    /\ Len(options.axes) = 1
    /\ options.base # Undefined /\ options.reset # Undefined
    /\ options.compound.type = "array"
    /\ props["variant"] = Str(<<"sm">>)
    /\ DOMAIN result = {"classes", "size"}

C3_BooleanTotal_AnySelection ==
    Returned =>
        \A k \in 1..Len(options.axes) :
            options.axes[k].def.type = "string" =>
                Lookup(result, options.axes[k].name) \in {JsTrue, JsFalse}

\* C3 amended: for every selection without resetStyles, a variant group
\* defined by a plain string resolves to exactly true or exactly false.
C3_BooleanTotal ==
    Returned /\ ~ResetActive =>
        \A k \in 1..Len(options.axes) :
            options.axes[k].def.type = "string" =>
                Lookup(result, options.axes[k].name) \in {JsTrue, JsFalse}

C3_Witness ==
    /\ Returned /\ ~ResetActive
    /\ Len(options.axes) = 2
    /\ options.axes[1].def = Toggle /\ options.axes[2].def = Toggle
    /\ props["size"] = Str(<<"sm">>) /\ props["variant"] = Undefined
    /\ result["size"] = JsFalse /\ result["variant"] = JsFalse

\* C4: createVariants raises no error for any input.
C4_NeverThrows == pc # "threw"

\* C5: outside reset mode a compound rule's classes are appended exactly when
\* every key of the rule other than classes has, in the values resolved by the
\* loop over the groups, exactly the rule's value; the order of the rule's
\* keys makes no difference, and no rule changes a resolved value.
C5_CompoundMatching ==
    [][/\ AtRule =>
            LET es == CurRule.entries
                conds == {k \in 1..Len(es) : es[k].key # "classes"}
                holds == \A k \in conds : Lookup(result, es[k].key) = es[k].value
                frag == es[CHOOSE k \in 1..Len(es) : es[k].key = "classes"].value
            IN  /\ holds => classList' = classList \o Space \o frag.val
                /\ ~holds => classList' = classList
                /\ Every(Reverse(es), result) = Every(es, result)
       /\ pc = "compound" => \A a \in Declared : Lookup(result', a) = Lookup(result, a)
      ]_vars

C5_Witness ==
    /\ Returned /\ ~ResetActive
    /\ options.base = Str(<<"btn">>)
    /\ Len(options.axes) = 2
    /\ options.axes[1].def = Sized /\ options.axes[2].def = Toggle
    /\ props["size"] = Undefined /\ props["variant"] = JsTrue
    /\ options.compound = ArrayCompound(<<PairRule>>)
    /\ result["size"] = Str(<<"sm">>) /\ result["variant"] = JsTrue
    /\ result["classes"] =
         Str(<<"btn", " ", "text-sm", " ", "shadow-lg", " ", "c2">>)

\* C6: outside reset mode the class string starts as the base classes, each
\* group then adds its classes at the end, in the order the options list the
\* groups, then each compound rule adds its classes at the end, in the order
\* of the rules, and the result is that string, trimmed.
C6_FragmentOrder ==
    [][/\ pc = "entered" /\ pc' = "axes" =>
            classList' = OrEmpty(options.base) /\ i' = 1
       /\ pc = "axes" /\ pc' = "axes" =>
            /\ i' = i + 1
            /\ IsPrefix(classList, classList')
            /\ classList' # classList => Cur.name \in Declared
       /\ pc = "axes" /\ pc' = "compound" =>
            i > Len(Entries(options)) /\ j' = 1 /\ classList' = classList
       /\ pc = "compound" /\ pc' = "compound" =>
            j' = j + 1 /\ IsPrefix(classList, classList')
       /\ pc = "compound" => pc' # "axes"
       /\ pc \in {"axes", "compound"} /\ pc' = "done" =>
            /\ i > Len(Entries(options))
            /\ pc = "compound" => j > Len(options.compound.rules)
            /\ classList' = classList
            /\ result'["classes"] = Str(Trim(classList))
      ]_vars

C6_Witness ==
    /\ Returned /\ ~ResetActive
    /\ options.base = Str(<<"btn">>)
    /\ Len(options.axes) = 2
    /\ options.axes[1].def = Plain /\ options.axes[2].def = Toggle
    /\ props["size"] = Str(<<"sm">>) /\ props["variant"] = JsTrue
    /\ options.compound = ArrayCompound(<<PairRule, SmallRule>>)
    /\ result["classes"] =
         Str(<<"btn", " ", "text-sm", " ", "shadow-lg", " ", "c2", " ", "c1">>)

C8_DefaultFallback ==
    [][AtAxis /\ Cur.def.type = "object" /\ Prop(Cur.name) = Undefined =>
            LET default == Get(Cur.def.map, DefaultKey)
                registered == Get(Cur.def.map, default.val)
            IN  IF default = Undefined
                THEN result'[Cur.name] = Undefined /\ classList' = classList
                ELSE IF NonEmpty(registered)
                THEN /\ result'[Cur.name] = default
                     /\ classList' = classList \o Space \o registered.val
                ELSE /\ result'[Cur.name] = Custom
                     /\ classList' = classList \o Space \o default.val
      ]_vars

C8_Witness ==
    /\ Returned /\ ~ResetActive
    /\ options.base = Str(<<"btn">>)
    /\ Len(options.axes) = 2
    /\ options.axes[1].def = RawDefault /\ options.axes[2].def = Plain
    /\ props["size"] = Undefined /\ props["variant"] = Undefined
    /\ options.compound = NoCompound
    /\ result["size"] = Custom /\ result["variant"] = Undefined
    /\ result["classes"] = Str(<<"btn", " ", "raw">>)

\* C9: a second call with the same options and the same props returns a
\* result equal to the first, key for key, and no step of a call changes the
\* options or the props.
C9_Deterministic ==
    /\ [](calls >= 1 /\ Returned => result = first)
    /\ [][options' = options /\ props' = props]_vars

C9_Witness ==
    /\ Returned /\ calls = 1
    /\ \A k \in DOMAIN props : props[k] = Undefined
    /\ Len(options.axes) = 2
    /\ options.axes[1].def = Sized /\ options.axes[2].def = RawDefault
    /\ first = result
    /\ result["size"] = Str(<<"sm">>) /\ result["variant"] = Custom
    /\ result["classes"] = Str(<<"btn", " ", "text-sm", " ", "raw">>)

\* C10: when boolean true is passed for a variant group given as an option
\* map, the group resolves to the group name and the group name is added to
\* the classes.
C10_TrueGivesGroupName ==
    Returned /\ ~ResetActive =>
        \A k \in 1..Len(options.axes) :
            LET a == options.axes[k] IN
            a.def.type = "object" /\ props[a.name] = JsTrue =>
                /\ Lookup(result, a.name) = Str(<<a.name>>)
                /\ \E n \in 1..Len(result["classes"].val) :
                       result["classes"].val[n] = a.name

C12_EmptyOptionAddsNothing ==
    [][AtAxis /\ Cur.def.type = "object" /\ Prop(Cur.name).type = "string"
       /\ Prop(Cur.name).val \in DOMAIN Cur.def.map
       /\ ~NonEmpty(Cur.def.map[Prop(Cur.name).val]) =>
            classList' = classList
      ]_vars

====
